---- MODULE Spec2Model ----
(***************************************************************************)
(* Model of matrix-market-transform: the coordinate-format readers         *)
(* (Matrix::from_reader, Matrix::from_mmap), the two reordering strategies *)
(* (sort_* : materialize-and-scatter, permute_* : cycle following with a   *)
(* mark bit), the writer (Display) and the command-line pipeline (main).   *)
(*                                                                         *)
(* Text is a sequence of one-character strings.  Vec<T> is a sequence;     *)
(* position k of the source (0-based) is element k+1 of the sequence.      *)
(* A usize that may carry the mark bit is a record [msb, low]: the top bit *)
(* of the word and the remaining bits.                                     *)
(* f32 values are modelled for short decimal literals (digits, sign and    *)
(* one '.'), for which Rust's parse and shortest-round-trip Display are    *)
(* exact on the decimal: a value is [mant, scale] = mant / 10^scale with   *)
(* trailing fractional zeros removed.                                      *)
(***************************************************************************)
EXTENDS Integers, Sequences, FiniteSets, TLC

(***************************************************************************)
(* Bounds of the model.                                                    *)
(***************************************************************************)
\* largest number of data lines of a generated input
MaxLines == 3
\* largest number of data lines of a generated input in which a (row, col)
\* pair may occur twice
MaxDupLines == 2

(***************************************************************************)
(* Text primitives (std).                                                  *)
(***************************************************************************)
Digits == <<"0", "1", "2", "3", "4", "5", "6", "7", "8", "9">>

DigitChars == {Digits[k] : k \in 1..10}

DigitVal(c) == (CHOOSE k \in 1..10 : Digits[k] = c) - 1

\* u8::is_ascii_whitespace
IsAsciiWhitespace(c) == c \in {" ", "\t", "\n", "\r", "\f"}

AsciiWhitespace == {" ", "\t", "\n", "\r", "\f"}

RECURSIVE SplitAcc(_, _, _, _)
SplitAcc(s, seps, cur, done) ==
    IF s = <<>> THEN Append(done, cur)
    ELSE IF Head(s) \in seps
         THEN SplitAcc(Tail(s), seps, <<>>, Append(done, cur))
         ELSE SplitAcc(Tail(s), seps, Append(cur, Head(s)), done)

\* <[u8]>::split: one piece more than there are separators, empty pieces kept
Split(s, seps) == SplitAcc(s, seps, <<>>, <<>>)

RECURSIVE TrimStart(_)
TrimStart(s) ==
    IF s /= <<>> /\ IsAsciiWhitespace(Head(s)) THEN TrimStart(Tail(s)) ELSE s

RECURSIVE TrimEnd(_)
TrimEnd(s) ==
    IF s /= <<>> /\ IsAsciiWhitespace(s[Len(s)])
    THEN TrimEnd(SubSeq(s, 1, Len(s) - 1)) ELSE s

\* <[u8]>::trim_ascii
TrimAscii(s) == TrimEnd(TrimStart(s))

\* str::split_ascii_whitespace: the non-empty pieces
SplitAsciiWhitespace(s) == SelectSeq(Split(s, AsciiWhitespace), LAMBDA p : p /= <<>>)

StripCr(s) ==
    IF s /= <<>> /\ s[Len(s)] = "\r" THEN SubSeq(s, 1, Len(s) - 1) ELSE s

\* BufRead::lines: pieces ended by '\n' (a final piece without '\n' counts,
\* an empty remainder does not), with the "\n" or "\r\n" removed
Lines(text) ==
    LET ps == Split(text, {"\n"})
        qs == IF ps[Len(ps)] = <<>> THEN SubSeq(ps, 1, Len(ps) - 1) ELSE ps
    IN [k \in 1..Len(qs) |-> StripCr(qs[k])]

RECURSIVE DigitsValue(_, _)
DigitsValue(s, acc) ==
    IF s = <<>> THEN acc ELSE DigitsValue(Tail(s), 10 * acc + DigitVal(Head(s)))

AllDigits(s) == \A k \in 1..Len(s) : s[k] \in DigitChars

Err == [ok |-> FALSE]

Ok(v) == [ok |-> TRUE, v |-> v]

\* <usize as FromStr>::from_str: an optional '+', then one or more digits
ParseUsize(tok) ==
    LET body == IF tok /= <<>> /\ Head(tok) = "+" THEN Tail(tok) ELSE tok
    IN IF body /= <<>> /\ AllDigits(body) THEN Ok(DigitsValue(body, 0)) ELSE Err

\* <i32 as FromStr>::from_str: an optional '+' or '-', then one or more digits
ParseInt(tok) ==
    LET signed == tok /= <<>> /\ Head(tok) \in {"+", "-"}
        body == IF signed THEN Tail(tok) ELSE tok
        v == DigitsValue(body, 0)
    IN IF body /= <<>> /\ AllDigits(body)
       THEN Ok(IF signed /\ Head(tok) = "-" THEN 0 - v ELSE v)
       ELSE Err

RECURSIVE Normalize(_, _)
Normalize(mant, scale) ==
    IF scale > 0 /\ mant % 10 = 0 THEN Normalize(mant \div 10, scale - 1)
    ELSE [mant |-> mant, scale |-> scale]

RealZero == [mant |-> 0, scale |-> 0]

\* <f32 as FromStr>::from_str on decimal literals: an optional sign, digits
\* with at most one '.', at least one digit
ParseReal(tok) ==
    LET signed == tok /= <<>> /\ Head(tok) \in {"+", "-"}
        body == IF signed THEN Tail(tok) ELSE tok
        ps == Split(body, {"."})
        ip == ps[1]
        fp == IF Len(ps) = 2 THEN ps[2] ELSE <<>>
        v == DigitsValue(ip \o fp, 0)
        n == Normalize(v, Len(fp))
    IN IF Len(ps) <= 2 /\ AllDigits(ip) /\ AllDigits(fp) /\ ip \o fp /= <<>>
       THEN Ok([n EXCEPT !.mant = IF signed /\ Head(tok) = "-" THEN 0 - @ ELSE @])
       ELSE Err

RECURSIVE FormatNat(_)
\* <usize as Display>::fmt
FormatNat(n) ==
    IF n < 10 THEN <<Digits[n + 1]>> ELSE Append(FormatNat(n \div 10), Digits[(n % 10) + 1])

\* <i32 as Display>::fmt
FormatInt(n) == IF n < 0 THEN <<"-">> \o FormatNat(0 - n) ELSE FormatNat(n)

RECURSIVE Pow10(_)
Pow10(k) == IF k = 0 THEN 1 ELSE 10 * Pow10(k - 1)

RECURSIVE PadZeros(_, _)
PadZeros(s, width) == IF Len(s) >= width THEN s ELSE PadZeros(<<"0">> \o s, width)

\* the value written without its fractional digits
FormatReal_Integral(x) == FormatInt(IF x.mant < 0 THEN 0 - ((0 - x.mant) \div Pow10(x.scale))
                                                   ELSE x.mant \div Pow10(x.scale))

\* <f32 as Display>::fmt: the shortest decimal that parses back to the value,
\* without exponent ("5" for 5.0, "2.5" for 2.5)
FormatReal(x) ==
    LET a == IF x.mant < 0 THEN 0 - x.mant ELSE x.mant
        sign == IF x.mant < 0 THEN <<"-">> ELSE <<>>
    IN IF x.scale = 0 THEN sign \o FormatNat(a)
       ELSE sign \o FormatNat(a \div Pow10(x.scale)) \o <<".">>
                 \o PadZeros(FormatNat(a % Pow10(x.scale)), x.scale)

(***************************************************************************)
(* Matrix and MatrixData (src/lib.rs).                                     *)
(***************************************************************************)
DataType == {"Real", "Complex", "Integer", "Bool"}

\* MatrixData: the active variant and its vectors (xs, ys as the variant has
\* them; a vector the variant does not have is kept empty)
MatrixData(kind, xs, ys) == [kind |-> kind, xs |-> xs, ys |-> ys]

\* MatrixData::new and MatrixData::with_capacity: empty vectors
NewData(data_type) == MatrixData(data_type, <<>>, <<>>)

Matrix(rows, cols, vals, nrows, ncols, nvals) ==
    [rows |-> rows, cols |-> cols, vals |-> vals,
     nrows |-> nrows, ncols |-> ncols, nvals |-> nvals]

EmptyMatrix(data_type) == Matrix(<<>>, <<>>, NewData(data_type), 0, 0, 0)

\* a call that panicked (unwrap on Err/None, index out of bounds)
Panic == [ok |-> FALSE]

\* parts[k].parse().unwrap(), k counted from 0: fails when the field is
\* missing or does not parse
Field(parts, k, type) ==
    IF k >= Len(parts) THEN Err
    ELSE CASE type = "usize" -> ParseUsize(parts[k + 1])
           [] type = "i32" -> ParseInt(parts[k + 1])
           [] OTHER -> ParseReal(parts[k + 1])

\* the zero a pre-sized value vector is filled with (vec![0.0; nvals], vec![0; nvals])
ZeroOf(data_type) == IF data_type = "Integer" THEN 0 ELSE RealZero

\* the fields of one data line, in the order the readers parse them
ParseEntry(parts, data_type) ==
    LET r == Field(parts, 0, "usize")
        c == Field(parts, 1, "usize")
        x == CASE data_type = "Integer" -> Field(parts, 2, "i32")
               [] data_type \in {"Real", "Complex"} -> Field(parts, 2, "f32")
               [] OTHER -> Ok(0)
        y == IF data_type = "Complex" THEN Field(parts, 3, "f32") ELSE Ok(0)
    IN IF r.ok /\ c.ok /\ x.ok /\ y.ok
       THEN Ok([row |-> r.v, col |-> c.v, x |-> x.v, y |-> y.v])
       ELSE Err

\* the three header fields
ParseHeader(parts) ==
    LET a == Field(parts, 0, "usize")
        b == Field(parts, 1, "usize")
        c == Field(parts, 2, "usize")
    IN IF a.ok /\ b.ok /\ c.ok
       THEN Ok([nrows |-> a.v, ncols |-> b.v, nvals |-> c.v])
       ELSE Err

\* the value vectors of a variant from the parsed entries es
DataOf(data_type, es) ==
    MatrixData(data_type,
               IF data_type = "Bool" THEN <<>> ELSE [k \in 1..Len(es) |-> es[k].x],
               IF data_type = "Complex" THEN [k \in 1..Len(es) |-> es[k].y] ELSE <<>>)

\* a byte that no UTF-8 text holds, or the place where the read of the
\* stream fails: next() of BufRead::lines is an Err for the line it is in
InvalidByte == "<FF>"

\* next() of rdr.lines() is an Err for this line
IsErrLine(line) == \E k \in 1..Len(line) : line[k] = InvalidByte

RECURSIVE MapWhileOk(_)
\* .map_while(Result::ok): the lines before the first Err, and no more
MapWhileOk(ls) ==
    IF ls = <<>> \/ IsErrLine(Head(ls)) THEN <<>>
    ELSE <<Head(ls)>> \o MapWhileOk(Tail(ls))

RECURSIVE SkipWhilePercent(_)
\* .skip_while(|line| line.starts_with('%'))
SkipWhilePercent(ls) ==
    IF ls /= <<>> /\ Head(ls) /= <<>> /\ Head(Head(ls)) = "%"
    THEN SkipWhilePercent(Tail(ls)) ELSE ls

\* Matrix::from_reader
FromReader(text, data_type) ==
    LET ls == SkipWhilePercent(MapWhileOk(Lines(text)))
    IN IF ls = <<>> THEN Ok(EmptyMatrix(data_type))
       ELSE LET h == ParseHeader(SplitAsciiWhitespace(Head(ls)))
                body == Tail(ls)
                es == [k \in 1..Len(body) |->
                          ParseEntry(SplitAsciiWhitespace(body[k]), data_type)]
            IN IF ~h.ok \/ \E k \in 1..Len(body) : ~es[k].ok THEN Panic
               ELSE Ok(Matrix([k \in 1..Len(body) |-> es[k].v.row],
                              [k \in 1..Len(body) |-> es[k].v.col],
                              DataOf(data_type, [k \in 1..Len(body) |-> es[k].v]),
                              h.v.nrows, h.v.ncols, h.v.nvals))

RECURSIVE SkipWhileTrimPercent(_)
\* .skip_while(|b| b.trim_ascii()[0] == b'%'): indexing an empty trimmed
\* piece panics
SkipWhileTrimPercent(ps) ==
    IF ps = <<>> THEN Ok(<<>>)
    ELSE IF TrimAscii(Head(ps)) = <<>> THEN Err
    ELSE IF Head(TrimAscii(Head(ps))) = "%" THEN SkipWhileTrimPercent(Tail(ps))
    ELSE Ok(ps)

Min(a, b) == IF a <= b THEN a ELSE b

\* Matrix::from_mmap
FromMmap(text, data_type) ==
    LET sk == SkipWhileTrimPercent(Split(text, {"\n"}))
    IN IF ~sk.ok THEN Panic
       ELSE IF sk.v = <<>> THEN Ok(EmptyMatrix(data_type))
       ELSE LET h == ParseHeader(Split(Head(sk.v), AsciiWhitespace))
                body == Tail(sk.v)
            IN IF ~h.ok THEN Panic
               ELSE LET nvals == h.v.nvals
                        n == Min(Len(body), nvals)
                        line(k) == IF data_type = "Real" THEN TrimAscii(body[k]) ELSE body[k]
                        es == [k \in 1..n |->
                                  ParseEntry(Split(line(k), AsciiWhitespace), data_type)]
                        zero == [row |-> 0, col |-> 0, x |-> ZeroOf(data_type),
                                 y |-> ZeroOf(data_type)]
                        filled == [k \in 1..nvals |-> IF k <= n THEN es[k].v ELSE zero]
                    IN IF \E k \in 1..n : ~es[k].ok THEN Panic
                       ELSE Ok(Matrix([k \in 1..nvals |-> filled[k].row],
                                      [k \in 1..nvals |-> filled[k].col],
                                      DataOf(data_type, filled),
                                      h.v.nrows, h.v.ncols, nvals))

(***************************************************************************)
(* Input texts the model reads: generated coordinate files in several      *)
(* layouts, inputs without a header, and two fixed files.                  *)
(***************************************************************************)
RECURSIVE Join(_, _)
Join(pieces, sep) ==
    IF pieces = <<>> THEN <<>>
    ELSE IF Len(pieces) = 1 THEN pieces[1]
    ELSE pieces[1] \o sep \o Join(Tail(pieces), sep)

\* the payload literals of data line k: reals with a fractional part that is
\* zero or not, signed integers, and for Complex a pair tagged by k
ValueToks(k, data_type) ==
    CASE data_type = "Real" ->
            <<FormatNat(k) \o (IF k % 2 = 1 THEN <<".", "0">> ELSE <<".", "5">>)>>
      [] data_type = "Complex" ->
            <<FormatNat(k), <<"-">> \o FormatNat(k) \o <<".", "5">>>>
      [] data_type = "Integer" ->
            <<(CASE k % 3 = 1 -> <<"+">> [] k % 3 = 2 -> <<"-">> [] OTHER -> <<>>)
              \o FormatNat(k)>>
      [] OTHER -> <<>>

\* the (row, col) pairs of the generated inputs: the 2 x 2 matrix
Coords == {<<1, 1>>, <<1, 2>>, <<2, 1>>, <<2, 2>>}

\* the data lines of the generated inputs: every order of up to MaxLines
\* distinct pairs, and every sequence of up to MaxDupLines pairs
CoordSeqs ==
    UNION {[1..n -> Coords] : n \in 0..MaxDupLines}
    \cup {cs \in UNION {[1..n -> Coords] : n \in 0..MaxLines} :
             \A a, b \in 1..Len(cs) : a /= b => cs[a] /= cs[b]}

GridRows == CHOOSE r \in {c[1] : c \in Coords} : \A c \in Coords : c[1] <= r

GridCols == CHOOSE r \in {c[2] : c \in Coords} : \A c \in Coords : c[2] <= r

Layouts ==
    {"plain", "nofinal", "comment", "wide", "lead", "crlf", "short", "long",
     "nopayload", "garbled", "badheader"}

\* the text of a file with the data lines coords (a sequence of <<row, col>>);
\* "short" declares one entry more than there are data lines and "long" one
\* less; in "nopayload" the last data line lacks its last field, in "garbled"
\* its row is not a number, in "badheader" the header lacks the entry count
FileText(coords, data_type, layout) ==
    LET n == Len(coords)
        sep == IF layout = "wide" THEN <<" ", " ">> ELSE <<" ">>
        eol == IF layout = "crlf" THEN <<"\r", "\n">> ELSE <<"\n">>
        declared == CASE layout = "short" -> n + 1
                      [] layout = "long" -> n - 1
                      [] OTHER -> n
        header == IF layout = "badheader"
                  THEN Join(<<FormatNat(GridRows), FormatNat(GridCols)>>, sep)
                  ELSE Join(<<FormatNat(GridRows), FormatNat(GridCols), FormatNat(declared)>>, sep)
        fields(k) == <<(IF layout = "garbled" /\ k = n THEN <<"x">> ELSE FormatNat(coords[k][1])),
                       FormatNat(coords[k][2])>>
                     \o ValueToks(k, data_type)
        entry(k) == (IF layout = "lead" THEN <<" ">> ELSE <<>>)
                    \o Join(IF layout = "nopayload" /\ k = n
                            THEN SubSeq(fields(k), 1, Len(fields(k)) - 1)
                            ELSE fields(k), sep)
        body == Join(<<header>> \o [k \in 1..n |-> entry(k)], eol)
    IN (IF layout = "comment" THEN <<"%", "c", "\n">> ELSE <<>>)
       \o body
       \o (IF layout \in {"nofinal", "short"} THEN <<>> ELSE eol)

LayoutsFor(cs, ls) == {l \in ls : l \in {"long", "nopayload", "garbled"} => cs /= <<>>}

GeneratedInputs(ls) ==
    UNION {{[text |-> FileText(cs, t, l), data_type |-> t] :
               t \in DataType, l \in LayoutsFor(cs, ls)} : cs \in CoordSeqs}

\* inputs without a header line
HeaderlessTexts ==
    {<<>>, <<"%", "c">>, <<"%", "c", "\n">>, <<"%", "c", "\n", "%", "d", "\n">>}

\* the file of the documented scenario: 2 2 3 / 1 1 5.0 / 2 2 3.0 / 1 2 4.0
ScenarioText ==
    <<"2", " ", "2", " ", "3", "\n",
      "1", " ", "1", " ", "5", ".", "0", "\n",
      "2", " ", "2", " ", "3", ".", "0", "\n",
      "1", " ", "2", " ", "4", ".", "0", "\n">>

\* a file with more entries than the head that Debug prints
LongCoords == <<<<3, 1>>, <<1, 2>>, <<2, 2>>, <<1, 1>>, <<2, 1>>, <<3, 3>>>>

LongText(data_type) ==
    Join(<<<<"3", " ", "3", " ", "6">>>>
         \o [k \in 1..Len(LongCoords) |->
                Join(<<FormatNat(LongCoords[k][1]), FormatNat(LongCoords[k][2])>>
                     \o ValueToks(k, data_type), <<" ">>)],
         <<"\n">>) \o <<"\n">>

\* files with a line that cannot be read: a comment, the header, the last
\* data line, a line after the declared entries
InvalidTexts ==
    LET header(n) == <<"2", " ", "2", " ", n, "\n">>
        entry == <<"1", " ", "1", " ", "1", ".", "0", "\n">>
    IN {<<"%", InvalidByte, "\n">> \o header("1") \o entry,
        <<"2", " ", "2", " ", InvalidByte, "\n">> \o entry,
        header("2") \o entry \o <<"2", " ", "2", " ", InvalidByte, "\n">>,
        header("1") \o entry \o <<InvalidByte, "\n">>}

\* some line of the text cannot be read
HasInvalidLine(text) == \E k \in 1..Len(text) : text[k] = InvalidByte

FixedInputs ==
    {[text |-> x, data_type |-> t] : x \in HeaderlessTexts, t \in DataType}
    \cup {[text |-> x, data_type |-> "Real"] : x \in InvalidTexts}
    \cup {[text |-> ScenarioText, data_type |-> "Real"]}
    \cup {[text |-> LongText(t), data_type |-> t] : t \in DataType}

Inputs == GeneratedInputs(Layouts) \cup FixedInputs

\* the files main is run on
MainInputs == GeneratedInputs({"plain", "short"}) \cup FixedInputs

\* the grammar of the coordinate format: comment lines, a header of three
\* numbers, then exactly nvals data lines with the fields of the data type
WellFormed(text, data_type) ==
    LET r == FromReader(text, data_type)
    IN /\ ~HasInvalidLine(text)
       /\ SkipWhilePercent(Lines(text)) /= <<>>
       /\ r.ok
       /\ Len(r.v.rows) = r.v.nvals

(***************************************************************************)
(* Reordering (src/lib.rs).                                                *)
(***************************************************************************)
\* largest number of reordering calls made on one Matrix
MaxOps == 2

RECURSIVE PermSeqs(_)
\* all orders of the elements of S
PermSeqs(S) ==
    IF S = {} THEN {<<>>}
    ELSE UNION {{<<x>> \o p : p \in PermSeqs(S \ {x})} : x \in S}

\* the comparator with the secondary key forgotten
RowMajorLe_RowOnly(a, b) == a.row <= b.row

\* (a.0, a.1).cmp(&(b.0, b.1)) is not Greater
RowMajorLe(a, b) == a.row < b.row \/ (a.row = b.row /\ a.col <= b.col)

\* the comparator with the secondary key forgotten
ColMajorLe_ColOnly(a, b) == a.col <= b.col

\* (a.1, a.0).cmp(&(b.1, b.0)) is not Greater
ColMajorLe(a, b) == a.col < b.col \/ (a.col = b.col /\ a.row <= b.row)

\* the comparator of the ordering key
KeyLe(key, a, b) == IF key = "RowMajor" THEN RowMajorLe(a, b) ELSE ColMajorLe(a, b)

HasXs(mm) == mm.vals.kind /= "Bool"

HasYs(mm) == mm.vals.kind = "Complex"

\* every vector the variant has holds positions 0..nvals-1
HasEntries(mm) ==
    /\ Len(mm.rows) >= mm.nvals
    /\ Len(mm.cols) >= mm.nvals
    /\ HasXs(mm) => Len(mm.vals.xs) >= mm.nvals
    /\ HasYs(mm) => Len(mm.vals.ys) >= mm.nvals

\* the tuple (self.rows[i], self.cols[i], xs[i], ys[i]) of position k = i + 1
Entry(mm, k) ==
    [row |-> mm.rows[k], col |-> mm.cols[k],
     x |-> IF HasXs(mm) THEN mm.vals.xs[k] ELSE 0,
     y |-> IF HasYs(mm) THEN mm.vals.ys[k] ELSE 0]

\* (0..self.nvals).map(|i| (...)).collect()
Zipped(mm) == [k \in 1..mm.nvals |-> Entry(mm, k)]

\* par_sort_unstable_by / sort_unstable_by: the elements in an order the
\* comparator accepts; the order of equal elements is not determined
SortUnstableBy(seq, key) ==
    {[k \in 1..Len(seq) |-> seq[p[k]]] : p \in
        {q \in PermSeqs(1..Len(seq)) :
            \A k \in 1..(Len(seq) - 1) : KeyLe(key, seq[q[k]], seq[q[k + 1]])}}

\* the scatter with .zip(self.cols.par_iter_mut()) forgotten
Scatter_NoCols(mm, sorted) ==
    LET put(old, F(_)) == [k \in 1..Len(old) |-> IF k <= Len(sorted) THEN F(sorted[k]) ELSE old[k]]
        r(e) == e.row
        x(e) == e.x
        y(e) == e.y
    IN [mm EXCEPT !.rows = put(mm.rows, r),
                  !.vals = MatrixData(mm.vals.kind,
                                      IF HasXs(mm) THEN put(mm.vals.xs, x) ELSE <<>>,
                                      IF HasYs(mm) THEN put(mm.vals.ys, y) ELSE <<>>)]

\* the scatter: zipped.into_par_iter().zip(rows).zip(cols).zip(xs)...for_each
Scatter(mm, sorted) ==
    LET put(old, F(_)) == [k \in 1..Len(old) |-> IF k <= Len(sorted) THEN F(sorted[k]) ELSE old[k]]
        r(e) == e.row
        c(e) == e.col
        x(e) == e.x
        y(e) == e.y
    IN [mm EXCEPT !.rows = put(mm.rows, r), !.cols = put(mm.cols, c),
                  !.vals = MatrixData(mm.vals.kind,
                                      IF HasXs(mm) THEN put(mm.vals.xs, x) ELSE <<>>,
                                      IF HasYs(mm) THEN put(mm.vals.ys, y) ELSE <<>>)]

\* Matrix::sort_row_major: the matrices it can leave, none when it panics
sort_row_major(mm) ==
    IF ~HasEntries(mm) THEN {}
    ELSE {Scatter(mm, s) : s \in SortUnstableBy(Zipped(mm), "RowMajor")}

\* Matrix::sort_col_major
sort_col_major(mm) ==
    IF ~HasEntries(mm) THEN {}
    ELSE {Scatter(mm, s) : s \in SortUnstableBy(Zipped(mm), "ColMajor")}

\* a usize of the permutation: the most significant bit and the other bits
Word(n) == [msb |-> FALSE, low |-> n]

\* the mark left out
mark_visited_Noop(idx) == idx

\* mark_visited: idx ^ MASK
mark_visited(idx) == [idx EXCEPT !.msb = ~@]

\* the test turned round
is_visited_Negated(idx) == ~idx.msb

\* the test that never sees a mark
is_visited_Never(idx) == FALSE

\* is_visited: (idx & MASK) != 0
is_visited(idx) == idx.msb

\* the word is an index into a vector of length len
InBounds(w, len) == ~w.msb /\ w.low < len

\* the comparator of permute_*_major reads rows[a], cols[a]; it runs on every
\* index as soon as there are two
ComparatorPanics(mm) ==
    mm.nvals >= 2 /\ (Len(mm.rows) < mm.nvals \/ Len(mm.cols) < mm.nvals)

Coord(mm, a) == [row |-> mm.rows[a + 1], col |-> mm.cols[a + 1]]

\* an index vector that is in key order but may name a position twice
SortedIndices_Repeating(mm, key) ==
    {q \in [1..mm.nvals -> 0..(mm.nvals - 1)] :
        \A k \in 1..(mm.nvals - 1) : KeyLe(key, Coord(mm, q[k]), Coord(mm, q[k + 1]))}

\* (0..self.nvals).collect() sorted by the comparator: indices counted from 0
SortedIndices(mm, key) ==
    {q \in PermSeqs(0..(mm.nvals - 1)) :
        \A k \in 1..(mm.nvals - 1) : KeyLe(key, Coord(mm, q[k]), Coord(mm, q[k + 1]))}

SwapSeq(s, a, b) == [s EXCEPT ![a + 1] = s[b + 1], ![b + 1] = s[a + 1]]

\* the swap with self.cols.swap(a, b) forgotten
swap_NoCols(mm, a, b) ==
    [mm EXCEPT !.rows = SwapSeq(mm.rows, a, b),
               !.vals = MatrixData(mm.vals.kind,
                                   IF HasXs(mm) THEN SwapSeq(mm.vals.xs, a, b) ELSE <<>>,
                                   IF HasYs(mm) THEN SwapSeq(mm.vals.ys, a, b) ELSE <<>>)]

\* the swap with xs.swap(a, b) forgotten
swap_NoXs(mm, a, b) ==
    [mm EXCEPT !.rows = SwapSeq(mm.rows, a, b), !.cols = SwapSeq(mm.cols, a, b),
               !.vals = MatrixData(mm.vals.kind, mm.vals.xs,
                                   IF HasYs(mm) THEN SwapSeq(mm.vals.ys, a, b) ELSE <<>>)]

\* the swap with ys.swap(a, b) forgotten
swap_NoYs(mm, a, b) ==
    [mm EXCEPT !.rows = SwapSeq(mm.rows, a, b), !.cols = SwapSeq(mm.cols, a, b),
               !.vals = MatrixData(mm.vals.kind,
                                   IF HasXs(mm) THEN SwapSeq(mm.vals.xs, a, b) ELSE <<>>,
                                   mm.vals.ys)]

\* Matrix::swap, a and b counted from 0
swap(mm, a, b) ==
    [mm EXCEPT !.rows = SwapSeq(mm.rows, a, b), !.cols = SwapSeq(mm.cols, a, b),
               !.vals = MatrixData(mm.vals.kind,
                                   IF HasXs(mm) THEN SwapSeq(mm.vals.xs, a, b) ELSE <<>>,
                                   IF HasYs(mm) THEN SwapSeq(mm.vals.ys, a, b) ELSE <<>>)]

\* slice::swap panics on an index out of bounds
SwapPanics(mm, a, w) ==
    \/ ~InBounds(Word(a), Len(mm.rows)) \/ ~InBounds(w, Len(mm.rows))
    \/ ~InBounds(Word(a), Len(mm.cols)) \/ ~InBounds(w, Len(mm.cols))
    \/ HasXs(mm) /\ (~InBounds(Word(a), Len(mm.vals.xs)) \/ ~InBounds(w, Len(mm.vals.xs)))
    \/ HasYs(mm) /\ (~InBounds(Word(a), Len(mm.vals.ys)) \/ ~InBounds(w, Len(mm.vals.ys)))

(***************************************************************************)
(* Writing (src/lib.rs).                                                   *)
(***************************************************************************)
\* the data line with the imaginary component left out
LineFields_OneComponent(mm, k) ==
    <<FormatNat(mm.rows[k]), FormatNat(mm.cols[k])>>
    \o (CASE mm.vals.kind \in {"Real", "Complex"} -> <<FormatReal(mm.vals.xs[k])>>
          [] mm.vals.kind = "Integer" -> <<FormatInt(mm.vals.xs[k])>>
          [] OTHER -> <<>>)

\* the fields of the data line of position k
LineFields(mm, k) ==
    <<FormatNat(mm.rows[k]), FormatNat(mm.cols[k])>>
    \o (CASE mm.vals.kind = "Real" -> <<FormatReal(mm.vals.xs[k])>>
          [] mm.vals.kind = "Complex" -> <<FormatReal(mm.vals.xs[k]), FormatReal(mm.vals.ys[k])>>
          [] mm.vals.kind = "Integer" -> <<FormatInt(mm.vals.xs[k])>>
          [] OTHER -> <<>>)

RECURSIVE Concat(_)
Concat(pieces) == IF pieces = <<>> THEN <<>> ELSE Head(pieces) \o Concat(Tail(pieces))

\* <Matrix as fmt::Display>::fmt: the text, or a panic at rows[i], cols[i],
\* xs[i], ys[i] out of bounds
Display(mm) ==
    IF ~HasEntries(mm) THEN Panic
    ELSE Ok(Join(<<FormatNat(mm.nrows), FormatNat(mm.ncols), FormatNat(mm.nvals)>>, <<" ">>)
            \o <<"\n">>
            \o Concat([k \in 1..mm.nvals |-> Join(LineFields(mm, k), <<" ">>) \o <<"\n">>]))

\* the head that Debug prints when no width is given: f.width().unwrap_or(5)
DebugHead == 5

\* <Matrix as fmt::Debug>::fmt completes: the slices [..n] exist
DebugCompletes(mm) ==
    /\ DebugHead <= Len(mm.rows)
    /\ DebugHead <= Len(mm.cols)
    /\ HasXs(mm) => DebugHead <= Len(mm.vals.xs)
    /\ HasYs(mm) => DebugHead <= Len(mm.vals.ys)

(***************************************************************************)
(* Permutation (src/permutation.rs).  A Permutation is [forward, indices], *)
(* indices counted from 0.  The in-place methods work on the indices as    *)
(* words that can carry the mark bit.                                      *)
(***************************************************************************)
\* largest length of a permutation and of a slice
MaxLen == 3

\* the elements of the slices
Elements == {1, 2, 3}

Permutation(forward, indices) == [forward |-> forward, indices |-> indices]

\* Permutation::len
len(p) == Len(p.indices)

\* Permutation::one
one(n) == Permutation(FALSE, [k \in 1..n |-> k - 1])

\* Permutation::valid: the sorted indices are 0, 1, .., len - 1
valid(p) ==
    \A v \in 0..(len(p) - 1) : Cardinality({k \in 1..len(p) : p.indices[k] = v}) = 1

\* Permutation::oneline
oneline(vec) == Permutation(TRUE, vec)

\* an inverse that keeps the direction
inverse_Same(p) == p

\* Permutation::inverse
inverse(p) == [p EXCEPT !.forward = ~@]

\* Permutation::apply_slice_fwd: s[idx] for every idx of the indices, in order
apply_slice_fwd(p, s) == [k \in 1..len(p) |-> s[p.indices[k] + 1]]

\* Permutation::apply_slice_bkwd: a copy of s in which other[idx] = s[i] is
\* written for i = 0, 1, .. in turn
apply_slice_bkwd(p, s) ==
    [k \in 1..Len(s) |->
        LET from == {x \in 1..len(p) : p.indices[x] = k - 1}
        IN IF from = {} THEN s[k]
           ELSE s[CHOOSE x \in from : \A y \in from : y <= x]]

\* Permutation::apply_slice; assert_eq!(s.len(), self.len())
apply_slice(p, s) ==
    IF Len(s) /= len(p) THEN Panic
    ELSE Ok(IF p.forward THEN apply_slice_bkwd(p, s) ELSE apply_slice_fwd(p, s))

\* Permutation::apply_inv_slice
apply_inv_slice(p, s) ==
    IF Len(s) /= len(p) THEN Panic
    ELSE Ok(IF p.forward THEN apply_slice_fwd(p, s) ELSE apply_slice_bkwd(p, s))

\* Permutation::apply_idx_fwd: position(|&v| v == idx).unwrap()
apply_idx_fwd(p, idx) ==
    LET at == {k \in 1..len(p) : p.indices[k] = idx}
    IN IF at = {} THEN Panic
       ELSE Ok((CHOOSE k \in at : \A x \in at : k <= x) - 1)

\* Permutation::apply_idx_bkwd: self.indices[idx]
apply_idx_bkwd(p, idx) == IF idx < len(p) THEN Ok(p.indices[idx + 1]) ELSE Panic

\* Permutation::apply_idx
apply_idx(p, idx) == IF p.forward THEN apply_idx_bkwd(p, idx) ELSE apply_idx_fwd(p, idx)

\* Permutation::apply_inv_idx
apply_inv_idx(p, idx) == IF p.forward THEN apply_idx_fwd(p, idx) ELSE apply_idx_bkwd(p, idx)

\* the product with the operands of the (true, true) case exchanged
mul_Exchanged(a, b) ==
    IF ~b.forward THEN inverse(oneline(apply_slice(a, b.indices).v))
    ELSE IF ~a.forward
         THEN LET c == inverse(oneline(apply_slice(b, one(len(a)).indices).v))
              IN inverse(oneline(apply_slice(a, c.indices).v))
         ELSE Permutation(TRUE, apply_inv_slice(a, b.indices).v)

\* <&Permutation as Mul<&Permutation>>::mul; in the (false, true) case the
\* inner and the outer product both have a right operand with forward false
mul(a, b) ==
    IF ~b.forward THEN inverse(oneline(apply_slice(a, b.indices).v))
    ELSE IF ~a.forward
         THEN LET c == inverse(oneline(apply_slice(b, one(len(a)).indices).v))
              IN inverse(oneline(apply_slice(a, c.indices).v))
         ELSE Permutation(TRUE, apply_inv_slice(b, a.indices).v)

\* Permutation::toggle_mark_idx
toggle_mark_idx(idx) == [idx EXCEPT !.msb = ~@]

\* Permutation::idx_is_marked
idx_is_marked(idx) == idx.msb

\* swapping at j in both in-place methods
SwapAt_AlwaysJ(kind, i, j) == j

\* the first argument of s.swap: j in apply_slice_bkwd_in_place, i in
\* apply_slice_fwd_in_place
SwapAt(kind, i, j) == IF kind = "bkwd" THEN j ELSE i

RECURSIVE InPlaceWhile(_, _, _, _, _, _)
\* the while loop of the in-place methods and the write after it; s.swap
\* panics on a marked or too large j_idx
InPlaceWhile(kind, indices, s, i, j, j_idx) ==
    LET marked == [indices EXCEPT ![j + 1] = toggle_mark_idx(j_idx)]
    IN IF j_idx = Word(i) THEN [ok |-> TRUE, indices |-> marked, s |-> s]
       ELSE IF ~InBounds(j_idx, Len(s)) THEN Panic
       ELSE InPlaceWhile(kind, marked, SwapSeq(s, SwapAt(kind, i, j), j_idx.low),
                         i, j_idx.low, marked[j_idx.low + 1])

RECURSIVE InPlaceFor(_, _, _, _)
\* the for loop of the in-place methods from index i on, then the pass that
\* toggles every mark
InPlaceFor(kind, indices, s, i) ==
    IF i = Len(indices)
    THEN [ok |-> TRUE, indices |-> [k \in 1..Len(indices) |-> toggle_mark_idx(indices[k])],
          s |-> s]
    ELSE IF idx_is_marked(indices[i + 1]) THEN InPlaceFor(kind, indices, s, i + 1)
    ELSE LET w == InPlaceWhile(kind, indices, s, i, i, indices[i + 1])
         IN IF w.ok THEN InPlaceFor(kind, w.indices, w.s, i + 1) ELSE Panic

\* Permutation::apply_slice_bkwd_in_place: the indices (as words) and the
\* slice it leaves
apply_slice_bkwd_in_place(p, s) ==
    IF Len(s) /= len(p) THEN Panic
    ELSE InPlaceFor("bkwd", [k \in 1..len(p) |-> Word(p.indices[k])], s, 0)

\* Permutation::apply_slice_fwd_in_place
apply_slice_fwd_in_place(p, s) ==
    IF Len(s) /= len(p) THEN Panic
    ELSE InPlaceFor("fwd", [k \in 1..len(p) |-> Word(p.indices[k])], s, 0)

\* Permutation::apply_slice_in_place
apply_slice_in_place(p, s) ==
    IF p.forward THEN apply_slice_fwd_in_place(p, s) ELSE apply_slice_bkwd_in_place(p, s)

\* Permutation::apply_inv_slice_in_place
apply_inv_slice_in_place(p, s) ==
    IF p.forward THEN apply_slice_bkwd_in_place(p, s) ELSE apply_slice_fwd_in_place(p, s)

\* slice::sort_by_key(|&i| &s[i]) on the indices: ascending keys, equal keys
\* in the order they had (the sort is stable)
sort_by_key(indices, s) ==
    LET n == Len(indices)
        key(x) == s[indices[x] + 1]
        q == CHOOSE q \in PermSeqs(1..n) :
                 \A k \in 1..(n - 1) :
                     key(q[k]) < key(q[k + 1]) \/ (key(q[k]) = key(q[k + 1]) /\ q[k] < q[k + 1])
    IN [k \in 1..n |-> indices[q[k]]]

\* Permutation::assign_from_sort; assert_eq!(self.len(), s.len())
assign_from_sort(p, s) ==
    IF len(p) /= Len(s) THEN Panic
    ELSE Ok([p EXCEPT !.indices = sort_by_key(p.indices, s)])

\* permutation::sort
sort(s) == [one(Len(s)) EXCEPT !.indices = sort_by_key(@, s)]

\* <Permutation as PartialEq>::eq: other.indices[j] panics out of bounds
eq(a, b) ==
    IF a.forward = b.forward THEN Ok(a.indices = b.indices)
    ELSE IF \E k \in 1..len(a) :
                /\ a.indices[k] >= len(b)
                /\ \A x \in 1..(k - 1) :
                       a.indices[x] < len(b) /\ b.indices[a.indices[x] + 1] = x - 1
         THEN Panic
         ELSE Ok(\A k \in 1..len(a) :
                    a.indices[k] < len(b) /\ b.indices[a.indices[k] + 1] = k - 1)

\* the valid permutations of length n, in both directions
ValidPermutations(n) ==
    {p \in {Permutation(f, q) : f \in BOOLEAN, q \in [1..n -> 0..(n - 1)]} : valid(p)}

\* the slices of length n
Slices(n) == [1..n -> Elements]

(***************************************************************************)
(* State.                                                                  *)
(***************************************************************************)
VARIABLES
    input,        \* the text of the input file that is still to be read
    dtype,        \* the DataType passed to the reader
    pc,           \* where the caller is: "start", "loaded", inside
                  \* apply_permutation ("for", "while"), "panic", or a step of main
    m,            \* the Matrix
    wf,           \* the text that was read followed the grammar
    m0,           \* the Matrix when the current or last reordering call began
    op,           \* the current or last reordering call
    nops,         \* number of completed reordering calls
    permutation,  \* apply_permutation: the permutation vector (words)
    perm0,        \* the permutation as it was passed to apply_permutation
    i,            \* apply_permutation: the outer loop index
    j,            \* apply_permutation: j
    j_idx,        \* apply_permutation: j_idx (a word)
    swaps,        \* apply_permutation: calls of self.swap in the current or last pass
    orig,         \* the Matrix as the reader returned it
    zipped,       \* parallel phase: the source items (lines, or sorted tuples)
    pending,      \* parallel phase: the items no worker has taken yet
    written,      \* parallel phase: per destination index, the writes made to it
    out,          \* the text written by Display, when there is one
    back,         \* the result of reading out again
    sort_order,   \* main: Args.sort_order
    output_file,  \* main: Args.output_file is Some
    exit,         \* main: how the process ended
    self,         \* the Permutation a method is called on
    slice,        \* the slice passed to the method
    res           \* the method called and what it returned

vars == <<input, dtype, pc, m, wf, m0, op, nops, permutation, perm0,
          i, j, j_idx, swaps, orig, out, back, sort_order, output_file, exit,
          self, slice, res, zipped, pending, written>>

permVars == <<self, slice, res>>

parVars == <<zipped, pending, written>>

NoWorkers == zipped = <<>> /\ pending = {} /\ written = <<>>

NoCall == [op |-> "none"]

NoPermutation == self = one(0) /\ slice = <<>> /\ res = NoCall

NoText == [done |-> FALSE]

Init ==
    /\ \E x \in Inputs : input = x.text /\ dtype = x.data_type
    /\ pc = "start"
    /\ m = EmptyMatrix(dtype)
    /\ wf = FALSE
    /\ m0 = EmptyMatrix(dtype)
    /\ op = "none"
    /\ nops = 0
    /\ permutation = <<>>
    /\ perm0 = <<>>
    /\ i = 0
    /\ j = 0
    /\ j_idx = Word(0)
    /\ swaps = 0
    /\ orig = EmptyMatrix(dtype)
    /\ NoWorkers
    /\ out = NoText
    /\ back = NoText
    /\ sort_order = "RowMajor"
    /\ output_file = FALSE
    /\ exit = "running"
    /\ NoPermutation

mainVars == <<sort_order, output_file, exit, permVars, parVars>>

applyVars == <<permutation, perm0, i, j, j_idx, swaps>>

(***************************************************************************)
(* Reading.                                                                *)
(***************************************************************************)
Load(r) ==
    /\ wf' = WellFormed(input, dtype)
    /\ input' = <<>>
    /\ m' = IF r.ok THEN r.v ELSE m
    /\ orig' = IF r.ok THEN r.v ELSE orig
    /\ pc' = IF r.ok THEN "loaded" ELSE "panic"
    /\ UNCHANGED <<dtype, m0, op, nops, applyVars, out, back, mainVars>>

\* let m = Matrix::from_reader(rdr, data_type)
ReadFromReader ==
    /\ pc = "start"
    /\ Load(FromReader(input, dtype))

\* let m = Matrix::from_mmap(file, data_type)
ReadFromMmap ==
    /\ pc = "start"
    /\ Load(FromMmap(input, dtype))

(***************************************************************************)
(* Reordering calls.                                                       *)
(***************************************************************************)
CanReorder == pc = "loaded" /\ nops < MaxOps /\ ~out.done

Sorted(outcomes, name) ==
    /\ IF outcomes = {}
       THEN pc' = "panic" /\ UNCHANGED <<m, nops>>
       ELSE /\ \E r \in outcomes : m' = r
            /\ nops' = nops + 1
            /\ pc' = "loaded"
    /\ m0' = m
    /\ op' = name
    /\ perm0' = <<>>
    /\ swaps' = 0
    /\ UNCHANGED <<input, dtype, wf, permutation, i, j, j_idx, orig, out, back, mainVars>>

\* m.sort_row_major()
SortRowMajor == CanReorder /\ Sorted(sort_row_major(m), "sort_row_major")

\* m.sort_col_major()
SortColMajor == CanReorder /\ Sorted(sort_col_major(m), "sort_col_major")

\* permute_*_major up to the call of apply_permutation
Permute(indices, name) ==
    /\ m0' = m
    /\ op' = name
    /\ IF ComparatorPanics(m)
       THEN pc' = "panic" /\ UNCHANGED <<applyVars>>
       ELSE /\ \E q \in indices :
                 /\ permutation' = [k \in 1..Len(q) |-> Word(q[k])]
                 /\ perm0' = q
            /\ i' = 0
            /\ swaps' = 0
            /\ pc' = "for"
            /\ UNCHANGED <<j, j_idx>>
    /\ UNCHANGED <<input, dtype, m, wf, nops, orig, out, back, mainVars>>

\* m.permute_row_major()
PermuteRowMajor ==
    /\ CanReorder
    /\ Permute(IF ComparatorPanics(m) THEN {} ELSE SortedIndices(m, "RowMajor"),
               "permute_row_major")

\* m.permute_col_major()
PermuteColMajor ==
    /\ CanReorder
    /\ Permute(IF ComparatorPanics(m) THEN {} ELSE SortedIndices(m, "ColMajor"),
               "permute_col_major")

applyFrame == <<input, dtype, wf, m0, op, perm0, orig, out, back, mainVars>>

\* apply_permutation: the for loop is over, the call returns
ApplyReturn ==
    /\ pc = "for"
    /\ i = m.nvals
    /\ pc' = "loaded"
    /\ nops' = nops + 1
    /\ permutation' = <<>>
    /\ i' = 0
    /\ j' = 0
    /\ j_idx' = Word(0)
    /\ UNCHANGED <<m, swaps>>
    /\ UNCHANGED applyFrame

\* apply_permutation: if is_visited(permutation[i]) { continue; }
ApplySkip ==
    /\ pc = "for"
    /\ i < m.nvals
    /\ is_visited(permutation[i + 1])
    /\ i' = i + 1
    /\ UNCHANGED <<pc, m, nops, permutation, j, j_idx, swaps>>
    /\ UNCHANGED applyFrame

\* apply_permutation: let mut j = i; let mut j_idx = permutation[i];
ApplyBegin ==
    /\ pc = "for"
    /\ i < m.nvals
    /\ ~is_visited(permutation[i + 1])
    /\ j' = i
    /\ j_idx' = permutation[i + 1]
    /\ pc' = "while"
    /\ UNCHANGED <<m, nops, permutation, i, swaps>>
    /\ UNCHANGED applyFrame

\* apply_permutation: one turn of the while loop
ApplySwap ==
    /\ pc = "while"
    /\ Word(i) /= j_idx
    /\ permutation' = [permutation EXCEPT ![j + 1] = mark_visited(j_idx)]
    /\ IF SwapPanics(m, j, j_idx) \/ ~InBounds(j_idx, Len(permutation))
       THEN pc' = "panic" /\ UNCHANGED <<m, j, j_idx, swaps>>
       ELSE /\ m' = swap(m, j, j_idx.low)
            /\ swaps' = swaps + 1
            /\ j' = j_idx.low
            /\ j_idx' = permutation'[j_idx.low + 1]
            /\ UNCHANGED pc
    /\ UNCHANGED <<nops, i>>
    /\ UNCHANGED applyFrame

\* apply_permutation: the while loop is over; permutation[j] = mark_visited(j_idx)
ApplyClose ==
    /\ pc = "while"
    /\ Word(i) = j_idx
    /\ permutation' = [permutation EXCEPT ![j + 1] = mark_visited(j_idx)]
    /\ i' = i + 1
    /\ pc' = "for"
    /\ UNCHANGED <<m, nops, j, j_idx, swaps>>
    /\ UNCHANGED applyFrame

(***************************************************************************)
(* Writing and reading back.                                               *)
(***************************************************************************)
\* let text = format!("{}", m)
Write ==
    /\ pc = "loaded"
    /\ ~out.done
    /\ LET r == Display(m)
       IN IF r.ok
          THEN out' = [done |-> TRUE, text |-> r.v] /\ UNCHANGED pc
          ELSE pc' = "panic" /\ UNCHANGED out
    /\ UNCHANGED <<input, dtype, m, wf, m0, op, nops, applyVars, orig, back, mainVars>>

\* Matrix::from_reader on the text that was written
ReadBack ==
    /\ pc = "loaded"
    /\ out.done
    /\ ~back.done
    /\ back' = [done |-> TRUE, res |-> FromReader(out.text, dtype)]
    /\ UNCHANGED <<input, dtype, pc, m, wf, m0, op, nops, applyVars, orig, out, mainVars>>

Next ==
    \/ ReadFromReader
    \/ ReadFromMmap
    \/ SortRowMajor
    \/ SortColMajor
    \/ PermuteRowMajor
    \/ PermuteColMajor
    \/ ApplyReturn
    \/ ApplySkip
    \/ ApplyBegin
    \/ ApplySwap
    \/ ApplyClose
    \/ Write
    \/ ReadBack

Spec == Init /\ [][Next]_vars

\* a step of apply_permutation
ApplyStep == ApplyReturn \/ ApplySkip \/ ApplyBegin \/ ApplySwap \/ ApplyClose

\* apply_permutation is sequential code that one thread runs to its end: a
\* step that can be taken is taken
FairSpec == Spec /\ WF_vars(ApplyStep)

(***************************************************************************)
(* The command-line pipeline (src/main.rs).  The input file is kept in     *)
(* input; exit is "ok" (status 0), "error" (main returned Err) or "panic". *)
(***************************************************************************)
MainInit ==
    /\ \E x \in MainInputs : input = x.text /\ dtype = x.data_type
    /\ pc = "open"
    /\ m = EmptyMatrix(dtype)
    /\ wf = FALSE
    /\ m0 = EmptyMatrix(dtype)
    /\ op = "none"
    /\ nops = 0
    /\ permutation = <<>>
    /\ perm0 = <<>>
    /\ i = 0
    /\ j = 0
    /\ j_idx = Word(0)
    /\ swaps = 0
    /\ orig = EmptyMatrix(dtype)
    /\ NoWorkers
    /\ out = NoText
    /\ back = NoText
    /\ sort_order \in {"RowMajor", "ColMajor"}
    /\ output_file \in BOOLEAN
    /\ exit = "running"
    /\ NoPermutation

readFrame == <<input, dtype, sort_order, output_file, applyVars, back, permVars, parVars>>

mainFrame == <<readFrame, orig>>

Exit(status) == pc' = "exit" /\ exit' = status

\* let file = File::open(input_file)?; let mut rdr = BufReader::new(file);
MainOpen ==
    /\ pc = "open"
    /\ pc' = "read"
    /\ UNCHANGED <<m, wf, m0, op, nops, out, exit>>
    /\ UNCHANGED mainFrame

\* File::open(input_file)? returns the error
MainOpenFails ==
    /\ pc = "open"
    /\ Exit("error")
    /\ UNCHANGED <<m, wf, m0, op, nops, out>>
    /\ UNCHANGED mainFrame

\* let mut m = Matrix::from_reader(&mut rdr, data_type);
MainRead ==
    /\ pc = "read"
    /\ wf' = WellFormed(input, dtype)
    /\ LET r == FromReader(input, dtype)
       IN IF r.ok
          THEN m' = r.v /\ orig' = r.v /\ pc' = "debug1" /\ UNCHANGED exit
          ELSE Exit("panic") /\ UNCHANGED <<m, orig>>
    /\ UNCHANGED <<m0, op, nops, out>>
    /\ UNCHANGED readFrame

\* println!("{:#?}", m); after the read and after the sort
MainDebug ==
    /\ pc \in {"debug1", "debug2"}
    /\ IF DebugCompletes(m)
       THEN pc' = (IF pc = "debug1" THEN "sort" ELSE "write") /\ UNCHANGED exit
       ELSE Exit("panic")
    /\ UNCHANGED <<m, wf, m0, op, nops, out>>
    /\ UNCHANGED mainFrame

\* match sort_order { RowMajor => m.sort_row_major(), ColMajor => m.sort_col_major() }
MainSort ==
    /\ pc = "sort"
    /\ LET outcomes == IF sort_order = "RowMajor" THEN sort_row_major(m) ELSE sort_col_major(m)
       IN IF outcomes = {}
          THEN Exit("panic") /\ UNCHANGED <<m, nops>>
          ELSE /\ \E r \in outcomes : m' = r
               /\ nops' = nops + 1
               /\ pc' = "debug2"
               /\ UNCHANGED exit
    /\ m0' = m
    /\ op' = IF sort_order = "RowMajor" THEN "sort_row_major" ELSE "sort_col_major"
    /\ UNCHANGED <<wf, out>>
    /\ UNCHANGED mainFrame

\* if let Some(path) = output_file { File::create(path)?; write!(wtr, "{}", m)?; }
MainWrite ==
    /\ pc = "write"
    /\ output_file
    /\ LET r == Display(m)
       IN IF r.ok
          THEN out' = [done |-> TRUE, text |-> r.v] /\ Exit("ok")
          ELSE Exit("panic") /\ UNCHANGED out
    /\ UNCHANGED <<m, wf, m0, op, nops>>
    /\ UNCHANGED mainFrame

\* File::create(path)? or write!(wtr, "{}", m)? returns the error
MainWriteFails ==
    /\ pc = "write"
    /\ output_file
    /\ Exit("error")
    /\ UNCHANGED <<m, wf, m0, op, nops, out>>
    /\ UNCHANGED mainFrame

\* no output file: Ok(())
MainReturn ==
    /\ pc = "write"
    /\ ~output_file
    /\ Exit("ok")
    /\ UNCHANGED <<m, wf, m0, op, nops, out>>
    /\ UNCHANGED mainFrame

MainNext ==
    \/ MainOpen
    \/ MainOpenFails
    \/ MainRead
    \/ MainDebug
    \/ MainSort
    \/ MainWrite
    \/ MainWriteFails
    \/ MainReturn

MainSpec == MainInit /\ [][MainNext]_vars

(***************************************************************************)
(* Calls of the Permutation methods (src/permutation.rs): one call on a    *)
(* valid Permutation and a slice; pc is "call", then "returned" or "panic".*)
(***************************************************************************)
PermInit ==
    /\ input = <<>>
    /\ dtype = "Bool"
    /\ pc = "call"
    /\ m = EmptyMatrix(dtype)
    /\ wf = FALSE
    /\ m0 = EmptyMatrix(dtype)
    /\ op = "none"
    /\ nops = 0
    /\ permutation = <<>>
    /\ perm0 = <<>>
    /\ i = 0
    /\ j = 0
    /\ j_idx = Word(0)
    /\ swaps = 0
    /\ orig = EmptyMatrix(dtype)
    /\ NoWorkers
    /\ out = NoText
    /\ back = NoText
    /\ sort_order = "RowMajor"
    /\ output_file = FALSE
    /\ exit = "running"
    /\ \E n \in 0..MaxLen : self \in ValidPermutations(n)
    /\ \E n \in 0..MaxLen : slice \in Slices(n)
    /\ res = NoCall

matrixVars == <<input, dtype, m, wf, m0, op, nops, applyVars, orig, out, back, parVars,
                sort_order, output_file, exit>>

\* the call returns v, self and the slice are as they were
Returns(name, v) ==
    /\ pc = "call"
    /\ res' = [op |-> name, self |-> self, slice |-> slice, v |-> v]
    /\ pc' = "returned"
    /\ UNCHANGED <<self, slice>>
    /\ UNCHANGED matrixVars

\* the call returns r.v or panics
ReturnsOrPanics(name, r) ==
    /\ pc = "call"
    /\ res' = IF r.ok THEN [op |-> name, self |-> self, slice |-> slice, v |-> r.v]
              ELSE [op |-> name, self |-> self, slice |-> slice]
    /\ pc' = IF r.ok THEN "returned" ELSE "panic"
    /\ UNCHANGED <<self, slice>>
    /\ UNCHANGED matrixVars

\* the in-place call leaves r.indices and r.s, or panics
InPlace(name, r) ==
    /\ pc = "call"
    /\ IF r.ok
       THEN /\ res' = [op |-> name, self |-> self, slice |-> slice, v |-> r.indices]
            /\ self' = [self EXCEPT !.indices = [k \in 1..Len(r.indices) |-> r.indices[k].low]]
            /\ slice' = r.s
            /\ pc' = "returned"
       ELSE /\ res' = [op |-> name, self |-> self, slice |-> slice]
            /\ pc' = "panic"
            /\ UNCHANGED <<self, slice>>
    /\ UNCHANGED matrixVars

\* &self * &rhs, rhs a valid permutation of the length of self
Mul ==
    /\ pc = "call"
    /\ \E rhs \in ValidPermutations(len(self)) :
           Returns("mul", [rhs |-> rhs, product |-> mul(self, rhs)])

\* self == rhs, then rhs == self, rhs a valid permutation of any length
Eq ==
    /\ pc = "call"
    /\ \E n \in 0..MaxLen : \E rhs \in ValidPermutations(n) :
           LET ab == eq(self, rhs)
               ba == eq(rhs, self)
           IN /\ res' = [op |-> "eq", self |-> self, slice |-> slice,
                         v |-> [rhs |-> rhs, ab |-> ab, ba |-> ba]]
              /\ pc' = IF ab.ok /\ ba.ok THEN "returned" ELSE "panic"
    /\ UNCHANGED <<self, slice>>
    /\ UNCHANGED matrixVars

\* self.apply_slice(&slice)
ApplySlice == ReturnsOrPanics("apply_slice", apply_slice(self, slice))

\* self.apply_inv_slice(&slice)
ApplyInvSlice == ReturnsOrPanics("apply_inv_slice", apply_inv_slice(self, slice))

\* self.apply_slice_in_place(&mut slice)
ApplySliceInPlace == InPlace("apply_slice_in_place", apply_slice_in_place(self, slice))

\* self.apply_inv_slice_in_place(&mut slice)
ApplyInvSliceInPlace ==
    InPlace("apply_inv_slice_in_place", apply_inv_slice_in_place(self, slice))

\* self.apply_idx(idx)
ApplyIdx ==
    /\ pc = "call"
    /\ \E idx \in 0..(len(self) - 1) :
           LET r == apply_idx(self, idx)
           IN ReturnsOrPanics("apply_idx", IF r.ok THEN Ok([idx |-> idx, to |-> r.v]) ELSE r)

\* self.apply_inv_idx(idx)
ApplyInvIdx ==
    /\ pc = "call"
    /\ \E idx \in 0..(len(self) - 1) :
           LET r == apply_inv_idx(self, idx)
           IN ReturnsOrPanics("apply_inv_idx", IF r.ok THEN Ok([idx |-> idx, to |-> r.v]) ELSE r)

\* self = self.inverse()
Inverse ==
    /\ pc = "call"
    /\ res' = [op |-> "inverse", self |-> self, slice |-> slice]
    /\ self' = inverse(self)
    /\ pc' = "returned"
    /\ UNCHANGED slice
    /\ UNCHANGED matrixVars

\* self.assign_from_sort(&slice)
AssignFromSort ==
    /\ pc = "call"
    /\ res' = [op |-> "assign_from_sort", self |-> self, slice |-> slice]
    /\ LET r == assign_from_sort(self, slice)
       IN IF r.ok THEN self' = r.v /\ pc' = "returned"
          ELSE pc' = "panic" /\ UNCHANGED self
    /\ UNCHANGED slice
    /\ UNCHANGED matrixVars

\* permutation::sort(&slice)
SortSlice == Returns("sort", sort(slice))

PermNext ==
    \/ Mul
    \/ ApplySlice
    \/ ApplyInvSlice
    \/ ApplySliceInPlace
    \/ ApplyInvSliceInPlace
    \/ ApplyIdx
    \/ ApplyInvIdx
    \/ Inverse
    \/ AssignFromSort
    \/ SortSlice
    \/ Eq

PermSpec == PermInit /\ [][PermNext]_vars

(***************************************************************************)
(* The parallel phases (src/lib.rs): the for_each of from_mmap over the    *)
(* lines zipped with the slots of rows, cols and the value vectors, and    *)
(* the for_each of sort_*_major over the sorted tuples zipped with the     *)
(* slots.  One step is one item taken by one worker; the items are taken   *)
(* in any order.  pc is "start", "parse", "parsed", "scatter", "scattered" *)
(* or "panic".  The input file is kept in input.                           *)
(***************************************************************************)
\* the threads of the pool
MaxWorkers == 2

Workers == 1..MaxWorkers

\* the files the parallel reader is run on
ParInputs == GeneratedInputs({"plain", "short", "long"}) \cup FixedInputs

ParInit ==
    /\ \E x \in ParInputs : input = x.text /\ dtype = x.data_type
    /\ pc = "start"
    /\ m = EmptyMatrix(dtype)
    /\ wf = FALSE
    /\ m0 = EmptyMatrix(dtype)
    /\ op = "none"
    /\ nops = 0
    /\ permutation = <<>>
    /\ perm0 = <<>>
    /\ i = 0
    /\ j = 0
    /\ j_idx = Word(0)
    /\ swaps = 0
    /\ orig = EmptyMatrix(dtype)
    /\ NoWorkers
    /\ out = NoText
    /\ back = NoText
    /\ sort_order = "RowMajor"
    /\ output_file = FALSE
    /\ exit = "running"
    /\ NoPermutation

parFrame == <<input, dtype, wf, applyVars, out, back, sort_order, output_file, exit, permVars>>

\* the closure that forgets *col
WriteEntry_NoCols(mm, k, e) ==
    [mm EXCEPT !.rows[k] = e.row,
               !.vals = MatrixData(mm.vals.kind,
                                   IF HasXs(mm) THEN [mm.vals.xs EXCEPT ![k] = e.x] ELSE <<>>,
                                   IF HasYs(mm) THEN [mm.vals.ys EXCEPT ![k] = e.y] ELSE <<>>)]

\* the closure of for_each on item k: *row = ..; *col = ..; *x = ..; *y = ..
WriteEntry(mm, k, e) ==
    [mm EXCEPT !.rows[k] = e.row, !.cols[k] = e.col,
               !.vals = MatrixData(mm.vals.kind,
                                   IF HasXs(mm) THEN [mm.vals.xs EXCEPT ![k] = e.x] ELSE <<>>,
                                   IF HasYs(mm) THEN [mm.vals.ys EXCEPT ![k] = e.y] ELSE <<>>)]

\* the length of the zip of the items with the slots of mm
ZipLen(items, mm) ==
    LET a == Min(Len(items), Min(Len(mm.rows), Len(mm.cols)))
        b == IF HasXs(mm) THEN Min(a, Len(mm.vals.xs)) ELSE a
    IN IF HasYs(mm) THEN Min(b, Len(mm.vals.ys)) ELSE b

\* from_mmap up to the parallel for_each: comments skipped, the header read,
\* the vectors made of nvals zeros, the lines collected
MmapBegin ==
    /\ pc = "start"
    /\ LET sk == SkipWhileTrimPercent(Split(input, {"\n"}))
           h == ParseHeader(Split(Head(sk.v), AsciiWhitespace))
           zero == [row |-> 0, col |-> 0, x |-> ZeroOf(dtype), y |-> ZeroOf(dtype)]
       IN IF ~sk.ok THEN pc' = "panic" /\ UNCHANGED <<m, orig, parVars>>
          ELSE IF sk.v = <<>>
               THEN /\ m' = EmptyMatrix(dtype)
                    /\ orig' = EmptyMatrix(dtype)
                    /\ pc' = "parsed"
                    /\ UNCHANGED parVars
          ELSE IF ~h.ok THEN pc' = "panic" /\ UNCHANGED <<m, orig, parVars>>
          ELSE LET zeros == [k \in 1..h.v.nvals |-> zero]
                   mm == Matrix([k \in 1..h.v.nvals |-> 0], [k \in 1..h.v.nvals |-> 0],
                                DataOf(dtype, zeros), h.v.nrows, h.v.ncols, h.v.nvals)
               IN /\ m' = mm
                  /\ zipped' = Tail(sk.v)
                  /\ pending' = 1..ZipLen(Tail(sk.v), mm)
                  /\ written' = [k \in 1..h.v.nvals |-> <<>>]
                  /\ pc' = "parse"
                  /\ UNCHANGED orig
    /\ UNCHANGED <<m0, op, nops>>
    /\ UNCHANGED parFrame

\* a worker takes line k and writes slot k of rows, cols and the values
ParseItem(w, k) ==
    /\ pc = "parse"
    /\ k \in pending
    /\ LET line == IF dtype = "Real" THEN TrimAscii(zipped[k]) ELSE zipped[k]
           e == ParseEntry(Split(line, AsciiWhitespace), dtype)
       IN IF e.ok
          THEN /\ m' = WriteEntry(m, k, e.v)
               /\ written' = [written EXCEPT ![k] = Append(@, [worker |-> w, item |-> k])]
               /\ pending' = pending \ {k}
               /\ UNCHANGED pc
          ELSE pc' = "panic" /\ UNCHANGED <<m, written, pending>>
    /\ UNCHANGED <<m0, op, nops, orig, zipped>>
    /\ UNCHANGED parFrame

\* the for_each of from_mmap returns; Self { rows, cols, vals, .. }
ParseJoin ==
    /\ pc = "parse"
    /\ pending = {}
    /\ pc' = "parsed"
    /\ orig' = m
    /\ UNCHANGED <<m, m0, op, nops, parVars>>
    /\ UNCHANGED parFrame

\* sort_*_major up to the scatter: zipped collected and sorted
SortBegin(key, name) ==
    /\ pc = "parsed"
    /\ m0' = m
    /\ op' = name
    /\ IF ~HasEntries(m)
       THEN pc' = "panic" /\ UNCHANGED parVars
       ELSE /\ zipped' \in SortUnstableBy(Zipped(m), key)
            /\ pending' = 1..ZipLen(Zipped(m), m)
            /\ written' = [k \in 1..Len(m.rows) |-> <<>>]
            /\ pc' = "scatter"
    /\ UNCHANGED <<m, nops, orig>>
    /\ UNCHANGED parFrame

\* a worker takes sorted tuple k and writes slot k of rows, cols and the values
ScatterItem(w, k) ==
    /\ pc = "scatter"
    /\ k \in pending
    /\ m' = WriteEntry(m, k, zipped[k])
    /\ written' = [written EXCEPT ![k] = Append(@, [worker |-> w, item |-> k])]
    /\ pending' = pending \ {k}
    /\ UNCHANGED <<pc, m0, op, nops, orig, zipped>>
    /\ UNCHANGED parFrame

\* the for_each of sort_*_major returns
ScatterJoin ==
    /\ pc = "scatter"
    /\ pending = {}
    /\ pc' = "scattered"
    /\ nops' = nops + 1
    /\ UNCHANGED <<m, m0, op, orig, parVars>>
    /\ UNCHANGED parFrame

ParNext ==
    \/ MmapBegin
    \/ \E w \in Workers : \E k \in pending : ParseItem(w, k)
    \/ ParseJoin
    \/ SortBegin("RowMajor", "sort_row_major")
    \/ SortBegin("ColMajor", "sort_col_major")
    \/ \E w \in Workers : \E k \in pending : ScatterItem(w, k)
    \/ ScatterJoin

ParSpec == ParInit /\ [][ParNext]_vars

(***************************************************************************)
(* Properties.                                                             *)
(***************************************************************************)
RowMajorOps == {"sort_row_major", "permute_row_major"}

ColMajorOps == {"sort_col_major", "permute_col_major"}

PermuteOps == {"permute_row_major", "permute_col_major"}

\* a reordering call has returned
Reordered == pc \in {"loaded", "debug2", "write", "exit"} /\ op /= "none" /\ nops > 0

\* the nvals entries exist and their (row, col) pairs are pairwise distinct
DistinctPairs(mm) ==
    /\ HasEntries(mm)
    /\ \A a, b \in 1..mm.nvals :
          a /= b => <<mm.rows[a], mm.cols[a]>> /= <<mm.rows[b], mm.cols[b]>>

LexLe(a1, a2, b1, b2) == a1 < b1 \/ (a1 = b1 /\ a2 <= b2)

\* C1: after sort_row_major or permute_row_major on a Matrix with pairwise
\* distinct (row, col) pairs, adjacent positions are in ascending (row, col)
\* order; after sort_col_major or permute_col_major, in ascending (col, row)
\* order; for every value shape.
C1_Ordered ==
    (Reordered /\ DistinctPairs(m0)) =>
        \A k \in 1..(m.nvals - 1) :
            /\ op \in RowMajorOps => LexLe(m.rows[k], m.cols[k], m.rows[k + 1], m.cols[k + 1])
            /\ op \in ColMajorOps => LexLe(m.cols[k], m.rows[k], m.cols[k + 1], m.rows[k + 1])

C1_Witness ==
    /\ Reordered /\ DistinctPairs(m0) /\ m.nvals = 3 /\ m /= m0
    /\ op = "permute_col_major" /\ m.vals.kind = "Integer"

AllEntries(mm) == [k \in 1..Len(mm.rows) |-> Entry(mm, k)]

Count(seq, e) == Cardinality({k \in 1..Len(seq) : seq[k] = e})

SameBag(s, t) ==
    /\ Len(s) = Len(t)
    /\ \A k \in 1..Len(s) : Count(s, s[k]) = Count(t, s[k])

\* C2: a reordering call changes positions only: nrows, ncols, nvals and the
\* lengths of the vectors are as before the call, and the multiset of
\* (row, col, value components) entries is the one before the call.
C2_OnlyPositions ==
    Reordered =>
        /\ m.nrows = m0.nrows /\ m.ncols = m0.ncols /\ m.nvals = m0.nvals
        /\ m.vals.kind = m0.vals.kind
        /\ Len(m.rows) = Len(m0.rows) /\ Len(m.cols) = Len(m0.cols)
        /\ Len(m.vals.xs) = Len(m0.vals.xs) /\ Len(m.vals.ys) = Len(m0.vals.ys)
        /\ SameBag(AllEntries(m), AllEntries(m0))

C2_Witness ==
    /\ Reordered /\ op = "sort_col_major" /\ m.vals.kind = "Complex"
    /\ m.nvals = 3 /\ m /= m0

\* C3: started on the same Matrix with pairwise distinct (row, col) pairs,
\* permute_row_major ends with the arrays sort_row_major ends with, and
\* permute_col_major with the arrays sort_col_major ends with.
C3_StrategiesAgree ==
    (Reordered /\ op \in PermuteOps /\ DistinctPairs(m0)) =>
        /\ op = "permute_row_major" => sort_row_major(m0) = {m}
        /\ op = "permute_col_major" => sort_col_major(m0) = {m}

C3_Witness ==
    /\ Reordered /\ op = "permute_row_major" /\ DistinctPairs(m0)
    /\ m.nvals = 3 /\ m /= m0 /\ m.vals.kind = "Real"

\* C4: after apply_permutation(p), p a bijection on [0, nvals), the entry at
\* each position i is the entry that was at position p[i] before the call.
C4_Gather ==
    (Reordered /\ op \in PermuteOps /\ HasEntries(m0)) =>
        \A k \in 1..m.nvals : Entry(m, k) = Entry(m0, perm0[k] + 1)

C4_Witness ==
    /\ Reordered /\ op \in PermuteOps /\ HasEntries(m0)
    /\ perm0 = <<1, 2, 0>>
    /\ m.vals.kind = "Complex"

\* the components of every entry carry the tag of the position it is at
Tagged(mm) ==
    \A a, b \in 1..Len(mm.vals.xs) :
        a /= b => mm.vals.xs[a] /= mm.vals.xs[b] /\ mm.vals.ys[a] /= mm.vals.ys[b]

\* C5: for the Complex shape, after a reordering by either strategy and
\* either key, the real and the imaginary component of each position come
\* from one position of the Matrix before the call, which is also the origin
\* of the row and the col of that position.
C5_ComplexTogether ==
    (Reordered /\ m0.vals.kind = "Complex" /\ HasEntries(m0) /\ Tagged(m0)) =>
        \A k \in 1..m.nvals :
            \E o \in 1..m0.nvals :
                /\ m.vals.xs[k] = m0.vals.xs[o]
                /\ m.vals.ys[k] = m0.vals.ys[o]
                /\ m.rows[k] = m0.rows[o]
                /\ m.cols[k] = m0.cols[o]

C5_Witness ==
    /\ Reordered /\ m0.vals.kind = "Complex" /\ HasEntries(m0) /\ Tagged(m0)
    /\ m.nvals = 3 /\ m.vals.xs /= m0.vals.xs /\ op = "permute_row_major"

\* the Matrix of the documented scenario after either ordering:
\* (1,1,5.0), (1,2,4.0), (2,2,3.0) under the header 2 2 3
ScenarioExpected ==
    Matrix(<<1, 1, 2>>, <<1, 2, 2>>,
           MatrixData("Real", <<[mant |-> 5, scale |-> 0], [mant |-> 4, scale |-> 0],
                                [mant |-> 3, scale |-> 0]>>, <<>>),
           2, 2, 3)

\* C6: run on the Real file 2 2 3 / 1 1 5.0 / 2 2 3.0 / 1 2 4.0 with an output
\* file, with either ordering and no I/O failure, the pipeline ends having
\* written the header 2 2 3 and the entries (1,1,5.0), (1,2,4.0), (2,2,3.0)
\* in that order.
C6_Scenario ==
    (pc = "exit" /\ exit /= "error" /\ input = ScenarioText /\ dtype = "Real" /\ output_file) =>
        /\ exit = "ok"
        /\ out.done
        /\ Head(Split(out.text, {"\n"})) = <<"2", " ", "2", " ", "3">>
        /\ FromReader(out.text, "Real") = Ok(ScenarioExpected)

\* the text has no header line: it is empty or every line is a % comment
NoHeader(text) ==
    \A k \in 1..Len(Lines(text)) : Lines(text)[k] /= <<>> /\ Head(Lines(text)[k]) = "%"

\* C7: on an input without a header line (empty, or only % comment lines,
\* with or without a final newline) from_reader and from_mmap both return the
\* empty Matrix of the requested data type, without failing.
C7_NoHeaderEmpty ==
    [][(pc = "start" /\ NoHeader(input)) =>
          (pc' = "loaded" /\ m' = EmptyMatrix(dtype))]_vars

PayloadFields(mm, k, f) ==
    CASE mm.vals.kind = "Real" -> Len(f) = 3 /\ ParseReal(f[3]) = Ok(mm.vals.xs[k])
      [] mm.vals.kind = "Complex" ->
            /\ Len(f) = 4
            /\ ParseReal(f[3]) = Ok(mm.vals.xs[k])
            /\ ParseReal(f[4]) = Ok(mm.vals.ys[k])
      [] mm.vals.kind = "Integer" -> Len(f) = 3 /\ ParseInt(f[3]) = Ok(mm.vals.xs[k])
      [] OTHER -> Len(f) = 2

\* the text is the header line of mm and its nvals data lines in array order
EmittedAsSpecified(text, mm) ==
    LET ps == Split(text, {"\n"})
    IN /\ Len(ps) = mm.nvals + 2
       /\ ps[Len(ps)] = <<>>
       /\ Split(ps[1], {" "}) = <<FormatNat(mm.nrows), FormatNat(mm.ncols), FormatNat(mm.nvals)>>
       /\ \A k \in 1..mm.nvals :
             LET f == Split(ps[k + 1], {" "})
             IN /\ Len(f) >= 2
                /\ ParseUsize(f[1]) = Ok(mm.rows[k])
                /\ ParseUsize(f[2]) = Ok(mm.cols[k])
                /\ PayloadFields(mm, k, f)

\* C8: Display writes the header line nrows ncols nvals and then exactly
\* nvals data lines, line k with rows[k], cols[k] and the payload of the
\* active shape at k, in array order, and leaves the Matrix as it was (the
\* empty Matrix gives 0 0 0 and no data line).
C8_Display ==
    [][(~out.done /\ out'.done) => (m' = m /\ EmittedAsSpecified(out'.text, m))]_vars

C8_Witness ==
    /\ out.done /\ m.vals.kind = "Complex" /\ m.nvals = 3 /\ op = "permute_col_major"

\* C9: a well-formed input that is read, written without reordering and read
\* again gives a Matrix with the nrows, ncols, nvals, rows, cols and values of
\* the first read.
C9_RoundTrip ==
    (back.done /\ wf /\ op = "none") => back.res = Ok(m)

C9_Witness ==
    /\ back.done /\ wf /\ op = "none" /\ m.vals.kind = "Real" /\ m.nvals = 3
    /\ \E k \in 1..3 : m.vals.xs[k].scale > 0

\* C10: on the same text and data type from_mmap and from_reader have the
\* same outcome: both fail or both return the same Matrix.
C10_ReadersAgree ==
    [][pc = "start" =>
          \A r \in {FromReader(input, dtype), FromMmap(input, dtype)} :
              IF r.ok THEN pc' = "loaded" /\ m' = r.v ELSE pc' = "panic"]_vars

\* Invariant A: rows, cols and every vector of the active variant have nvals
\* elements
InvariantA(mm) ==
    /\ Len(mm.rows) = mm.nvals
    /\ Len(mm.cols) = mm.nvals
    /\ HasXs(mm) => Len(mm.vals.xs) = mm.nvals
    /\ HasYs(mm) => Len(mm.vals.ys) = mm.nvals

\* C11: every Matrix returned by from_reader or from_mmap, and the Matrix
\* after every reordering call on it, satisfies Invariant A: rows, cols and
\* every vector of the active value variant have exactly nvals elements,
\* whatever number of data lines follows the header.
C11_InvariantA ==
    pc = "loaded" => InvariantA(m)

\* the text has a header line, and the header or one of the nvals data lines
\* it requires is missing a field, holds a field that is not a number of the
\* expected type, or (a data line) is not there
Defective(text, data_type) ==
    LET ls == SkipWhilePercent(Lines(text))
        h == ParseHeader(SplitAsciiWhitespace(Head(ls)))
    IN /\ ls /= <<>>
       /\ \/ ~h.ok
          \/ /\ h.ok
             /\ \/ Len(ls) - 1 < h.v.nvals
                \/ \E k \in 1..h.v.nvals :
                       ~ParseEntry(SplitAsciiWhitespace(ls[k + 1]), data_type).ok

\* C12: when the header or one of the nvals required data lines is missing,
\* lacks a required field or holds a field that does not parse, the read
\* (from_reader and from_mmap) fails as a whole: no Matrix is returned.
C12_NoPartialMatrix ==
    [][(pc = "start" /\ Defective(input, dtype)) => pc' = "panic"]_vars

\* C13: main ends with status zero on every well-formed input file, of any
\* entry count (0 and small counts included), any data type and either
\* ordering, when no file operation fails; and it does not end with status
\* zero when the read fails or a file cannot be opened, created or written.
C13_ExitStatus ==
    pc = "exit" =>
        /\ (wf /\ exit /= "error") => exit = "ok"
        /\ (exit = "error" \/ ~FromReader(input, dtype).ok) => exit /= "ok"

\* q holds every index 0..n-1 exactly once
IsPermutationOf(q, n) ==
    /\ Len(q) = n
    /\ \A k \in 1..n : q[k] \in 0..(n - 1)
    /\ \A a, b \in 1..n : a /= b => q[a] /= q[b]

\* C14: the index vector that permute_row_major and permute_col_major pass
\* to apply_permutation is a permutation of 0..nvals: it has nvals elements,
\* no value twice, no value out of range and, when the pass begins, no mark
\* bit set; also for a Matrix in which a (row, col) pair occurs twice.
C14_IndexBijection ==
    pc \in {"for", "while"} =>
        /\ IsPermutationOf(perm0, m.nvals)
        /\ Len(permutation) = m.nvals
        /\ \A k \in 1..m.nvals : permutation[k].low = perm0[k]
        /\ (pc = "for" /\ i = 0) => \A k \in 1..m.nvals : ~permutation[k].msb

C14_Witness ==
    /\ pc = "for" /\ i = 0 /\ op = "permute_row_major"
    /\ m.nvals = 2 /\ ~DistinctPairs(m) /\ HasEntries(m)
    /\ perm0 = <<1, 0>>

\* the pass of apply_permutation is under way
InApply == pc \in {"for", "while"}

\* C19: in apply_permutation a mark bit, once set, stays set; the for loop
\* passes over every index whose slot is marked without touching anything;
\* every write to the permutation (one per turn of the while loop and one
\* when it ends) marks one slot that was not marked; and when the for loop
\* is over every slot 0..nvals-1 is marked, fixed points included.
C19_MarkedOnce ==
    [][(InApply /\ pc' /= "loaded") =>
          /\ \A k \in 1..Len(permutation) : permutation[k].msb => permutation'[k].msb
          /\ (pc = "for" /\ i < m.nvals /\ permutation[i + 1].msb) =>
                 (i' = i + 1 /\ pc' = "for" /\ permutation' = permutation /\ m' = m)
          /\ permutation' /= permutation =>
                 \E k \in 1..Len(permutation) :
                     /\ ~permutation[k].msb
                     /\ permutation' = [permutation EXCEPT ![k].msb = TRUE]
          /\ (pc = "while") => permutation' /= permutation
          /\ (pc' = "for" /\ i' = m'.nvals) =>
                 \A k \in 1..m'.nvals : permutation'[k].msb]_vars

C19_Witness ==
    /\ pc = "for" /\ i = m.nvals /\ m.nvals = 3
    /\ perm0 = <<0, 2, 1>>
    /\ \A k \in 1..3 : permutation[k].msb

\* C20: a turn of the while loop of apply_permutation, which calls
\* self.swap(j, j_idx), exchanges the whole entries (row, col and every
\* component of the active variant) of the two positions and leaves every
\* other position as it was; so at every point of the pass the entries of the
\* Matrix are the entries it had when the call began, each one intact.
C20_SwapTogether ==
    [][(pc = "while" /\ pc' = "while") =>
          /\ Len(m'.rows) = Len(m.rows) /\ Len(m'.cols) = Len(m.cols)
          /\ Len(m'.vals.xs) = Len(m.vals.xs) /\ Len(m'.vals.ys) = Len(m.vals.ys)
          /\ Entry(m', j + 1) = Entry(m, j_idx.low + 1)
          /\ Entry(m', j_idx.low + 1) = Entry(m, j + 1)
          /\ \A k \in 1..Len(m.rows) :
                 k \notin {j + 1, j_idx.low + 1} => Entry(m', k) = Entry(m, k)
          /\ SameBag(AllEntries(m'), AllEntries(m0))]_vars

C20_Witness ==
    /\ pc = "while" /\ m /= m0 /\ m.vals.kind = "Complex" /\ m.nvals = 3
    /\ op = "permute_col_major" /\ Tagged(m0)

\* C15: for valid permutations a and b of one length, in each of the four
\* combinations of their forward flags, and every slice s of that length,
\* (&a * &b).apply_slice(s) is a.apply_slice(b.apply_slice(s)).
C15_MulIsCompose ==
    (pc = "returned" /\ res.op = "mul" /\ Len(slice) = len(self)) =>
        apply_slice(res.v.product, slice)
            = apply_slice(self, apply_slice(res.v.rhs, slice).v)

C15_Witness ==
    /\ pc = "returned" /\ res.op = "mul"
    /\ ~self.forward /\ self.indices = <<1, 2, 0>>
    /\ res.v.rhs.forward /\ res.v.rhs.indices = <<1, 0, 2>>
    /\ slice = <<1, 2, 3>>

\* C16: for a valid Permutation in either direction and a slice of its
\* length, apply_slice_in_place leaves in the slice what apply_slice returns
\* for the slice as it was, apply_inv_slice_in_place what apply_inv_slice
\* returns; the Permutation is as it was: same indices, no mark bit set, same
\* direction.
C16_InPlaceAsCopy ==
    (pc = "returned" /\ res.op \in {"apply_slice_in_place", "apply_inv_slice_in_place"}) =>
        /\ res.op = "apply_slice_in_place" => Ok(slice) = apply_slice(res.self, res.slice)
        /\ res.op = "apply_inv_slice_in_place" =>
               Ok(slice) = apply_inv_slice(res.self, res.slice)
        /\ self = res.self
        /\ \A k \in 1..Len(res.v) : ~res.v[k].msb

C16_Witness ==
    /\ pc = "returned" /\ res.op = "apply_slice_in_place"
    /\ res.self.forward /\ res.self.indices = <<1, 2, 0>>
    /\ res.slice = <<1, 2, 3>> /\ slice = <<3, 1, 2>>

\* C17: for a valid Permutation p in either direction and a slice s of its
\* length, p.apply_inv_slice(p.apply_slice(s)) is s and
\* p.inverse().apply_slice(p.apply_slice(s)) is s; and when p.apply_idx(i) is
\* j, p.apply_inv_idx(j) is i.
C17_InverseUndoes ==
    pc = "returned" =>
        /\ res.op = "apply_slice" =>
               /\ apply_inv_slice(self, res.v) = Ok(slice)
               /\ apply_slice(inverse(self), res.v) = Ok(slice)
        /\ (res.op = "inverse" /\ Len(slice) = len(self)) =>
               apply_slice(self, apply_slice(res.self, slice).v) = Ok(slice)
        /\ res.op = "apply_idx" => apply_inv_idx(self, res.v.to) = Ok(res.v.idx)

C17_Witness ==
    /\ pc = "returned" /\ res.op = "apply_slice"
    /\ self.forward /\ self.indices = <<1, 2, 0>>
    /\ slice = <<1, 2, 3>> /\ res.v = <<3, 1, 2>>

IsAscending(s) == \A k \in 1..(Len(s) - 1) : s[k] <= s[k + 1]

\* C18: for a valid Permutation self, whatever its indices and direction,
\* and a slice of its length, after self.assign_from_sort(slice) the result of
\* self.apply_slice(slice) is the slice in ascending order and self equals
\* permutation::sort(slice); when the lengths differ the call panics.
C18_AssignFromSort ==
    res.op = "assign_from_sort" =>
        /\ len(res.self) /= Len(res.slice) => pc = "panic"
        /\ pc = "returned" =>
               /\ IsAscending(apply_slice(self, slice).v)
               /\ eq(self, sort(slice)) = Ok(TRUE)

RECURSIVE Orbit(_, _, _)
\* the indices q leads to from k (q and k counted from 0), added to seen
Orbit(q, k, seen) ==
    IF k \in seen THEN seen ELSE Orbit(q, q[k + 1], seen \cup {k})

\* the cycle of q that k is on
CycleOf(q, k) == Orbit(q, k, {})

NumCycles(q) == Cardinality({CycleOf(q, k) : k \in 0..(Len(q) - 1)})

\* C21: apply_permutation, called with a bijection on [0, nvals) without
\* marks, terminates; a walk begun at i stays on the cycle of i and visits
\* only slots that are not marked; the number of calls of swap in the whole
\* pass is nvals minus the number of cycles, which is at most nvals - 1.
C21_Terminates ==
    /\ [](pc = "while" => (j \in CycleOf(perm0, i) /\ ~permutation[j + 1].msb))
    /\ []((InApply /\ m.nvals > 0) => swaps <= m.nvals - 1)
    /\ []((op \in PermuteOps /\ (pc = "loaded" \/ (pc = "for" /\ i = m.nvals))) =>
             swaps = m.nvals - NumCycles(perm0))
    /\ (InApply ~> pc = "loaded")

C21_Witness ==
    /\ pc = "loaded" /\ op = "permute_row_major" /\ nops = 1
    /\ perm0 = <<2, 1, 0>> /\ swaps = 1 /\ m.vals.kind = "Real"

\* the key of the last reordering call
KeyOfOp == IF op \in RowMajorOps THEN "RowMajor" ELSE "ColMajor"

\* the first nvals positions of mm are in the order of the key
IsOrdered(mm, key) ==
    \A k \in 1..(mm.nvals - 1) : KeyLe(key, Coord(mm, k - 1), Coord(mm, k))

\* what the ordering of the key alone gives on mm
OrderingAlone(mm, key) ==
    IF key = "RowMajor" THEN sort_row_major(mm) ELSE sort_col_major(mm)

\* C24: on a Matrix with pairwise distinct (row, col) pairs a reordering
\* call on a Matrix already in that order changes no array; and after any
\* sequence of reordering calls of either strategy, the arrays are exactly
\* the ones the ordering of the last call alone gives on the Matrix as read.
C24_Idempotent ==
    (Reordered /\ DistinctPairs(orig)) =>
        /\ IsOrdered(m0, KeyOfOp) => m = m0
        /\ OrderingAlone(orig, KeyOfOp) = {m}

C24_Witness ==
    /\ Reordered /\ DistinctPairs(orig) /\ nops = 2 /\ orig.nvals = 3
    /\ op = "permute_col_major" /\ IsOrdered(m0, "RowMajor")
    /\ m0 /= orig /\ m /= m0 /\ m /= orig

\* a call on a Matrix already in the order of the call
C24_WitnessSame ==
    /\ Reordered /\ DistinctPairs(orig) /\ nops = 2 /\ orig.nvals = 3
    /\ op = "sort_row_major" /\ IsOrdered(m0, "RowMajor") /\ m0 /= orig

\* C23: when a line of the stream cannot be read (the read fails or the
\* line is not valid text), before or after the header, from_reader fails:
\* it returns no Matrix built from the lines before the failure.
C23_ReadErrorNotHidden ==
    [][(ReadFromReader /\ HasInvalidLine(input)) => pc' = "panic"]_vars

\* C25: for valid permutations a and b of any lengths and directions, a == b
\* does not panic, a == b is b == a, and a == b implies that a and b have
\* the same length and that apply_slice of a and of b agree on every slice.
C25_EqSound ==
    res.op = "eq" =>
        /\ res.v.ab.ok /\ res.v.ba.ok
        /\ res.v.ab = res.v.ba
        /\ res.v.ab = Ok(TRUE) =>
              /\ len(self) = len(res.v.rhs)
              /\ \A s \in Slices(len(self)) :
                     apply_slice(self, s) = apply_slice(res.v.rhs, s)

\* in C25, with permutations of one length only
C25_EqSoundSameLength ==
    (res.op = "eq" /\ len(self) = len(res.v.rhs)) =>
        /\ res.v.ab.ok /\ res.v.ba.ok
        /\ res.v.ab = res.v.ba
        /\ res.v.ab = Ok(TRUE) <=>
              \A s \in Slices(len(self)) :
                  apply_slice(self, s) = apply_slice(res.v.rhs, s)

C25_WitnessSameLength ==
    /\ pc = "returned" /\ res.op = "eq" /\ res.v.ab = Ok(TRUE)
    /\ self.forward /\ self.indices = <<1, 2, 0>>
    /\ ~res.v.rhs.forward /\ res.v.rhs.indices = <<2, 0, 1>>

\* the destination indices of the parallel phase that has been joined
Destinations == 1..ZipLen(zipped, m)

\* C22: in the parallel phases (the parse of from_mmap, the scatter of
\* sort_row_major and sort_col_major) every destination index k is written
\* by exactly one worker, once, with the data of source item k; the arrays
\* after the phase are the same in every order of the workers: the ones
\* from_mmap gives on the file, the sorted tuples in their order.
C22_OneWriter ==
    /\ pc \in {"parse", "parsed", "scatter", "scattered"} =>
          \A k \in 1..Len(written) :
              /\ Len(written[k]) <= 1
              /\ \A x \in 1..Len(written[k]) : written[k][x].item = k
              /\ (Len(written[k]) = 0 /\ k \in Destinations) <=> k \in pending
    /\ pc = "parsed" =>
          /\ \A k \in Destinations : Len(written[k]) = 1
          /\ Ok(m) = FromMmap(input, dtype)
    /\ pc = "scattered" =>
          /\ \A k \in Destinations : Len(written[k]) = 1
          /\ m = Scatter(m0, zipped)
          /\ \A k \in 1..m.nvals : Entry(m, k) = zipped[k]

C22_Witness ==
    /\ pc = "scattered" /\ m.nvals = 3 /\ m /= m0 /\ dtype = "Complex"
    /\ written[1][1].worker = 2 /\ written[2][1].worker = 1 /\ written[3][1].worker = 2

\* the parse joined with its lines taken by different workers
C22_WitnessParse ==
    /\ pc = "parsed" /\ m.nvals = 3 /\ dtype = "Real"
    /\ written[1][1].worker = 2 /\ written[2][1].worker = 1 /\ written[3][1].worker = 2

====
